---- MODULE Spec2Model ----
(***************************************************************************)
(* A model of the desktop shell of chitchats: the sidecar supervisor       *)
(* (sidecar.rs), the window-state store (window_state.rs) and the startup  *)
(* sequencer with the tray and window event handlers (lib.rs).             *)
(***************************************************************************)
EXTENDS Integers, Sequences, FiniteSets, TLC

\* ------------------------------------------------------------------ bounds

\* Sidecar processes that can be spawned in one behaviour.
MaxProcs == 3
\* start_backend / stop_backend commands the frontend invokes in one behaviour.
MaxCalls == 4

\* ------------------------------------------------------- program constants

\* for _ in 0..30
MaxAttempts == 30
\* tokio::time::Duration::from_millis(500)
PollIntervalMs == 500
\* state.width < 400
MinWidth == 400
\* state.height < 300
MinHeight == 300

\* ------------------------------------------------------------------- state

VARIABLES
    \* sidecar.rs
    BACKEND_PROCESS,  \* the stored handle: 0 is None, p > 0 is Some(child of process p)
    procState,        \* process p: "unspawned", "running" or "exited"
    reader,           \* the output task of process p: "none", "reading" or "done"
    spawned,          \* how many processes have been spawned
    pc,               \* each caller's position in start/stop_backend_internal
    child,            \* start_backend_internal's local `child` (0: not yet spawned)
    result,           \* what the caller's last finished call returned
    issuedEmpty,      \* whether the caller's call was issued while no handle was stored
    history,          \* the calls that returned, in order
    \* lib.rs
    setup_needed,     \* setup::is_setup_needed(&app_handle)
    seqPc,            \* the startup sequence's position
    attempt,          \* the poll loop's index
    probes,           \* health probes issued by the startup task
    sleeps,           \* 500 ms suspensions of the startup task
    sleptMs,          \* their total length
    SETUP_COMPLETE,   \* the AtomicBool
    seqLog,           \* what the startup sequence has done, in order
    host,             \* the host process: "running", "exiting" (app.exit called) or "exited"
    evPending,        \* a Resized or Moved event waits for its handler
    \* window_state.rs
    win,              \* the main window as the host reports it
    file,             \* .window_state.json
    lastOp,           \* the last save or restore call: its branch, its window calls, its effect
    saved,            \* the geometry the latest write of the file took from the window
    maxSaves,         \* consecutive rewrites by maximized saves (counted to 2)
    writing           \* the fs::write in progress: what it still has to put in the file

Procs == 1..MaxProcs
\* The frontend's command invocations (start_backend, stop_backend).
Cmds == {"cmd1", "cmd2"}
\* "seq" is the startup task of lib.rs, "quit" the stop task of the tray's quit item.
Callers == Cmds \cup {"seq", "quit"}

sidecarVars == <<BACKEND_PROCESS, procState, reader, spawned, pc, child, result,
                 issuedEmpty, history>>
seqVars == <<setup_needed, seqPc, attempt, probes, sleeps, sleptMs, SETUP_COMPLETE, seqLog>>
storeVars == <<file, lastOp, saved, maxSaves, writing>>
vars == <<sidecarVars, seqVars, host, evPending, win, storeVars>>

\* The host process has not exited: its tasks and handlers still run.
Alive == host # "exited"

\* What the supervisor's steps leave alone.
rest == <<seqVars, host, evPending, win, storeVars>>

\* The calls in progress or returned.
CallsIssued == Len(history) + Cardinality({c \in Cmds : pc[c] # "idle"})

\* ---------------------------------------------------------------- sidecar

SidecarInit ==
    /\ BACKEND_PROCESS = 0
    /\ procState = [p \in Procs |-> "unspawned"]
    /\ reader = [p \in Procs |-> "none"]
    /\ spawned = 0
    /\ pc = [c \in Callers |-> "idle"]
    /\ child = [c \in Callers |-> 0]
    /\ result = [c \in Callers |-> "none"]
    /\ issuedEmpty = [c \in Callers |-> FALSE]
    /\ history = <<>>

\* A call of start_backend_internal begins.
BeginStart(c) ==
    /\ pc' = [pc EXCEPT ![c] = "check"]
    /\ child' = [child EXCEPT ![c] = 0]
    /\ result' = [result EXCEPT ![c] = "none"]
    /\ issuedEmpty' = [issuedEmpty EXCEPT ![c] = (BACKEND_PROCESS = 0)]

\* A call returns r to its caller.
Return(c, op, r, p) ==
    /\ pc' = [pc EXCEPT ![c] = "idle"]
    /\ result' = [result EXCEPT ![c] = r]
    /\ history' = Append(history, [caller |-> c, op |-> op, res |-> r, child |-> p])

\* #[tauri::command] start_backend
CmdStartBackend(c) ==
    /\ Alive
    /\ c \in Cmds
    /\ pc[c] = "idle"
    /\ CallsIssued < MaxCalls
    /\ BeginStart(c)
    /\ UNCHANGED <<BACKEND_PROCESS, procState, reader, spawned, history>>
    /\ UNCHANGED rest

\* StartCheck without its early return: the call goes on to spawn.
StartCheck_NoEarlyReturn(c) ==
    /\ Alive
    /\ pc[c] = "check"
    /\ pc' = [pc EXCEPT ![c] = "spawn"]
    /\ UNCHANGED <<child, result, history>>
    /\ UNCHANGED <<BACKEND_PROCESS, procState, reader, spawned, issuedEmpty>>
    /\ UNCHANGED rest

\* start_backend_internal, the first critical section: "Check if already running".
StartCheck(c) ==
    /\ Alive
    /\ pc[c] = "check"
    /\ IF BACKEND_PROCESS # 0
       THEN /\ Return(c, "start", "ok", 0)
            /\ UNCHANGED child
       ELSE /\ pc' = [pc EXCEPT ![c] = "spawn"]
            /\ UNCHANGED <<child, result, history>>
    /\ UNCHANGED <<BACKEND_PROCESS, procState, reader, spawned, issuedEmpty>>
    /\ UNCHANGED rest

\* start_backend_internal: sidecar("chitchats-backend") and spawn(), outside the lock.
StartSpawn(c, ok) ==
    /\ Alive
    /\ pc[c] = "spawn"
    /\ IF ok
       THEN /\ spawned < MaxProcs
            /\ spawned' = spawned + 1
            /\ procState' = [procState EXCEPT ![spawned + 1] = "running"]
            /\ child' = [child EXCEPT ![c] = spawned + 1]
            /\ pc' = [pc EXCEPT ![c] = "store"]
            /\ UNCHANGED <<result, history>>
       ELSE /\ Return(c, "start", "err", 0)
            /\ UNCHANGED <<spawned, procState, child>>
    /\ UNCHANGED <<BACKEND_PROCESS, reader, issuedEmpty>>
    /\ UNCHANGED rest

\* start_backend_internal: the second critical section stores the handle; the
\* output task is then launched and Ok(()) returned.
StartStore(c) ==
    /\ Alive
    /\ pc[c] = "store"
    /\ BACKEND_PROCESS' = child[c]
    /\ reader' = [reader EXCEPT ![child[c]] = "reading"]
    /\ Return(c, "start", "ok", child[c])
    /\ UNCHANGED <<procState, spawned, child, issuedEmpty>>
    /\ UNCHANGED rest

\* #[tauri::command] stop_backend
CmdStopBackend(c) ==
    /\ Alive
    /\ c \in Cmds
    /\ pc[c] = "idle"
    /\ CallsIssued < MaxCalls
    /\ pc' = [pc EXCEPT ![c] = "stop"]
    /\ child' = [child EXCEPT ![c] = 0]
    /\ result' = [result EXCEPT ![c] = "none"]
    /\ UNCHANGED <<BACKEND_PROCESS, procState, reader, spawned, issuedEmpty, history>>
    /\ UNCHANGED rest

\* StopBackend with the handle looked at in place: one whose kill fails stays
\* stored.
StopBackend_KeepsOnKillError(c, killOk) ==
    /\ Alive
    /\ pc[c] = "stop"
    /\ BACKEND_PROCESS' = IF killOk THEN 0 ELSE BACKEND_PROCESS
    /\ IF BACKEND_PROCESS # 0
       THEN /\ child' = [child EXCEPT ![c] = BACKEND_PROCESS]
            /\ procState' = IF killOk
                            THEN [procState EXCEPT ![BACKEND_PROCESS] = "exited"]
                            ELSE procState
            /\ Return(c, "stop", IF killOk THEN "ok" ELSE "err", BACKEND_PROCESS)
       ELSE /\ killOk
            /\ Return(c, "stop", "ok", 0)
            /\ UNCHANGED <<child, procState>>
    /\ UNCHANGED <<reader, spawned, issuedEmpty>>
    /\ UNCHANGED rest

\* stop_backend_internal: one critical section. process.take() empties the slot
\* before child.kill() is tried; killOk is whether the kill signal is delivered.
StopBackend(c, killOk) ==
    /\ Alive
    /\ pc[c] = "stop"
    /\ BACKEND_PROCESS' = 0
    /\ IF BACKEND_PROCESS # 0
       THEN /\ child' = [child EXCEPT ![c] = BACKEND_PROCESS]
            /\ procState' = IF killOk
                            THEN [procState EXCEPT ![BACKEND_PROCESS] = "exited"]
                            ELSE procState
            /\ Return(c, "stop", IF killOk THEN "ok" ELSE "err", BACKEND_PROCESS)
       ELSE /\ killOk
            /\ Return(c, "stop", "ok", 0)
            /\ UNCHANGED <<child, procState>>
    /\ UNCHANGED <<reader, spawned, issuedEmpty>>
    /\ UNCHANGED rest

\* The sidecar process ends on its own.
ProcExits(p) ==
    /\ procState[p] = "running"
    /\ procState' = [procState EXCEPT ![p] = "exited"]
    /\ UNCHANGED <<BACKEND_PROCESS, reader, spawned, pc, child, result, issuedEmpty, history>>
    /\ UNCHANGED rest

\* ReaderTerminated without the clearing of the slot.
ReaderTerminated_KeepsHandle(p) ==
    /\ Alive
    /\ reader[p] = "reading"
    /\ procState[p] = "exited"
    /\ reader' = [reader EXCEPT ![p] = "done"]
    /\ UNCHANGED <<BACKEND_PROCESS, procState, spawned, pc, child, result, issuedEmpty, history>>
    /\ UNCHANGED rest

\* The output task of process p receives CommandEvent::Terminated: it clears the
\* slot and leaves its loop.
ReaderTerminated(p) ==
    /\ Alive
    /\ reader[p] = "reading"
    /\ procState[p] = "exited"
    /\ BACKEND_PROCESS' = 0
    /\ reader' = [reader EXCEPT ![p] = "done"]
    /\ UNCHANGED <<procState, spawned, pc, child, result, issuedEmpty, history>>
    /\ UNCHANGED rest

\* ----------------------------------------------------------- window store

\* The positions and sizes a window takes in the model: both sides of the
\* minimum size, and a position off the screen's origin.
Xs == {-8, 10}
Ys == {0, 20}
Widths == {399, 400, 800}
Heights == {299, 300}
Geoms == [x : Xs, y : Ys, width : Widths, height : Heights]
NoGeom == [x |-> 0, y |-> 0, width |-> 0, height |-> 0]

\* i32 and u32, the types of WindowState's fields. (No integer of the model
\* exceeds u32's upper end.)
IsI32(v) == v >= -2147483647 - 1 /\ v <= 2147483647
IsU32(v) == v >= 0

Keys == <<"x", "y", "width", "height", "maximized">>

\* Serialize with the two sizes under each other's name.
Serialize_SizesSwapped(state) ==
    << <<"x", state.x>>, <<"y", state.y>>, <<"width", state.height>>,
       <<"height", state.width>>, <<"maximized", IF state.maximized THEN 1 ELSE 0>> >>

\* serde_json::to_string_pretty(&WindowState): the object's members in the
\* struct's order, a bool written as the token 1 (true) or 0 (false).
Serialize(state) ==
    << <<"x", state.x>>, <<"y", state.y>>, <<"width", state.width>>,
       <<"height", state.height>>, <<"maximized", IF state.maximized THEN 1 ELSE 0>> >>

Members(text, k) == {i \in 1..Len(text) : text[i][1] = k}
Member(text, k) == text[CHOOSE i \in Members(text, k) : TRUE][2]

\* serde_json::from_str::<WindowState> succeeds: every field is there once and
\* has its type; members that are no field are skipped.
ParseOk(text) ==
    /\ \A j \in 1..Len(Keys) : Cardinality(Members(text, Keys[j])) = 1
    /\ IsI32(Member(text, "x"))
    /\ IsI32(Member(text, "y"))
    /\ IsU32(Member(text, "width"))
    /\ IsU32(Member(text, "height"))
    /\ Member(text, "maximized") \in {0, 1}

\* The WindowState from_str returns.
Parsed(text) ==
    [x |-> Member(text, "x"), y |-> Member(text, "y"),
     width |-> Member(text, "width"), height |-> Member(text, "height"),
     maximized |-> (Member(text, "maximized") = 1)]

\* The state file: fs::read_to_string fails when it does not exist.
NoFile == [exists |-> FALSE, text |-> <<>>]
\* fs::write(&state_file, json)
Written(text) == [exists |-> TRUE, text |-> text]

\* The record save_window_state builds from the window's answers.
StateOf(w) ==
    [x |-> w.x, y |-> w.y, width |-> w.width, height |-> w.height,
     maximized |-> w.maximized]
GeomOf(w) == [x |-> w.x, y |-> w.y, width |-> w.width, height |-> w.height]

\* The branch save_window_state takes. hostOk: the window answers its queries;
\* when it does not, is_minimized and is_visible fall back to false and true and
\* the position query ends the call.
SaveBranch(w, f, hostOk) ==
    IF hostOk /\ (w.minimized \/ ~w.visible) THEN "skipped"
    ELSE IF ~hostOk THEN "query-failed"
    ELSE IF w.maximized
         THEN IF f.exists /\ ParseOk(f.text) THEN "maximized" ELSE "maximized-no-record"
         ELSE "full"

\* save_window_state without its first test: a minimized or hidden window is saved.
SaveWindowState_NoGuard(w, f, hostOk) ==
    IF ~hostOk THEN f
    ELSE IF StateOf(w).maximized
         THEN IF f.exists /\ ParseOk(f.text)
              THEN Written(Serialize([Parsed(f.text) EXCEPT !.maximized = TRUE]))
              ELSE f
         ELSE Written(Serialize(StateOf(w)))

\* save_window_state without the maximized case: the maximized window's record is
\* written like any other.
SaveWindowState_NoMaximizedCase(w, f, hostOk) ==
    IF hostOk /\ (w.minimized \/ ~w.visible) THEN f
    ELSE IF ~hostOk THEN f
    ELSE Written(Serialize(StateOf(w)))

\* save_window_state writing the maximized window's record when the file holds
\* none to rewrite.
SaveWindowState_MaximizedWritesAnyway(w, f, hostOk) ==
    IF hostOk /\ (w.minimized \/ ~w.visible) THEN f
    ELSE IF ~hostOk THEN f
    ELSE IF StateOf(w).maximized
         THEN IF f.exists /\ ParseOk(f.text)
              THEN Written(Serialize([Parsed(f.text) EXCEPT !.maximized = TRUE]))
              ELSE Written(Serialize(StateOf(w)))
         ELSE Written(Serialize(StateOf(w)))

\* save_window_state: the state file it leaves.
SaveWindowState(w, f, hostOk) ==
    IF hostOk /\ (w.minimized \/ ~w.visible) THEN f
    ELSE IF ~hostOk THEN f
    ELSE IF StateOf(w).maximized
         THEN IF f.exists /\ ParseOk(f.text)
              THEN Written(Serialize([Parsed(f.text) EXCEPT !.maximized = TRUE]))
              ELSE f
         ELSE Written(Serialize(StateOf(w)))

\* The branch restore_window_state takes.
RestoreBranch(f) ==
    IF ~f.exists THEN "no-file"
    ELSE IF ~ParseOk(f.text) THEN "parse-error"
    ELSE IF Parsed(f.text).width < MinWidth \/ Parsed(f.text).height < MinHeight
         THEN "invalid-size"
         ELSE IF Parsed(f.text).maximized THEN "maximize" ELSE "geometry"

\* RestoreCalls with the size set before the position.
RestoreCalls_SizeFirst(f) ==
    IF RestoreBranch(f) = "maximize" THEN <<"maximize">>
    ELSE IF RestoreBranch(f) = "geometry" THEN <<"set_size", "set_position">>
    ELSE <<>>

\* The calls restore_window_state makes on the window, in order.
RestoreCalls(f) ==
    IF RestoreBranch(f) = "maximize" THEN <<"maximize">>
    ELSE IF RestoreBranch(f) = "geometry" THEN <<"set_position", "set_size">>
    ELSE <<>>

\* window.maximize(): the host chooses the geometry of the maximized window.
Maximize(w, scr) ==
    [w EXCEPT !.maximized = TRUE, !.x = scr.x, !.y = scr.y,
              !.width = scr.width, !.height = scr.height]
\* window.set_position(Physical(x, y))
SetPosition(w, x, y) == [w EXCEPT !.x = x, !.y = y]
\* window.set_size(Physical(width, height))
SetSize(w, width, height) == [w EXCEPT !.width = width, !.height = height]
\* window.show() and window.set_focus()
Show(w) == [w EXCEPT !.visible = TRUE]
\* window.hide()
Hide(w) == [w EXCEPT !.visible = FALSE]

\* restore_window_state without the validation of the size.
RestoreWindowState_NoValidation(w, f, scr) ==
    IF ~f.exists THEN w
    ELSE IF ~ParseOk(f.text) THEN w
    ELSE IF Parsed(f.text).maximized
         THEN Maximize(w, scr)
         ELSE SetSize(SetPosition(w, Parsed(f.text).x, Parsed(f.text).y),
                      Parsed(f.text).width, Parsed(f.text).height)

\* restore_window_state: the window it leaves.
RestoreWindowState(w, f, scr) ==
    IF ~f.exists THEN w
    ELSE IF ~ParseOk(f.text) THEN w
    ELSE IF Parsed(f.text).width < MinWidth \/ Parsed(f.text).height < MinHeight THEN w
    ELSE IF Parsed(f.text).maximized
         THEN Maximize(w, scr)
         ELSE SetSize(SetPosition(w, Parsed(f.text).x, Parsed(f.text).y),
                      Parsed(f.text).width, Parsed(f.text).height)

\* ---------------------------------------------------- window and its events

\* Contents of the state file that do not parse: an empty file, a truncated
\* object, a negative width, a maximized member that is no bool, a member twice.
Malformed ==
    { <<>>,
      << <<"x", 10>>, <<"y", 20>> >>,
      << <<"x", 10>>, <<"y", 20>>, <<"width", -1>>, <<"height", 300>>, <<"maximized", 0>> >>,
      << <<"x", 10>>, <<"y", 20>>, <<"width", 800>>, <<"height", 300>>, <<"maximized", 2>> >>,
      << <<"x", 10>>, <<"x", 10>>, <<"y", 20>>, <<"width", 800>>, <<"height", 300>>,
         <<"maximized", 1>> >> }

\* What an earlier run, or the user, can have left at the file's path: nothing,
\* a file that does not parse, a record to apply, a maximized record, and
\* records below the minimum size.
Files ==
    {NoFile}
    \cup {Written(t) : t \in Malformed}
    \cup { Written(Serialize([x |-> -8, y |-> 0, width |-> 400, height |-> 300, maximized |-> FALSE])),
           Written(Serialize([x |-> -8, y |-> 0, width |-> 400, height |-> 300, maximized |-> TRUE])),
           Written(Serialize([x |-> -8, y |-> 0, width |-> 399, height |-> 300, maximized |-> TRUE])),
           Written(Serialize([x |-> -8, y |-> 0, width |-> 400, height |-> 299, maximized |-> FALSE])) }

\* The geometries the host gives a maximized window.
Screens == {g \in Geoms : g.x = -8 /\ g.y = 0 /\ g.width = 800}

NoOp == [op |-> "none", branch |-> "", calls |-> <<>>, changed |-> FALSE]

\* No fs::write is in progress.
NoWrite == [active |-> FALSE, text |-> <<>>, hide |-> FALSE]

\* A call of save_window_state(window) and what it leaves behind.
Save(w, hostOk) ==
    /\ file' = SaveWindowState(w, file, hostOk)
    /\ saved' = IF SaveBranch(w, file, hostOk) = "full" THEN GeomOf(w)
                ELSE IF SaveBranch(w, file, hostOk) = "maximized" THEN NoGeom
                ELSE saved
    /\ maxSaves' = IF SaveBranch(w, file, hostOk) = "maximized"
                   THEN (IF maxSaves < 2 THEN maxSaves + 1 ELSE maxSaves)
                   ELSE IF SaveBranch(w, file, hostOk) = "full" THEN 0 ELSE maxSaves
    /\ writing' = writing

\* A call of restore_window_state(&window).
Restore(scr) ==
    /\ win' = RestoreWindowState(win, file, scr)
    /\ evPending' = (evPending \/ RestoreCalls(file) # <<>>)

\* What the user or the window manager does to the visible window; each queues
\* a Resized or Moved event.
UserChange(w2) ==
    /\ Alive
    /\ seqPc # "boot"
    /\ win.visible
    /\ w2 # win
    /\ win' = w2
    /\ evPending' = TRUE
    /\ lastOp' = NoOp
    /\ UNCHANGED <<sidecarVars, seqVars, host, file, saved, maxSaves, writing>>

UserMoves(x, y) ==
    /\ ~win.minimized /\ ~win.maximized
    /\ UserChange(SetPosition(win, x, y))

UserResizes(width, height) ==
    /\ ~win.minimized /\ ~win.maximized
    /\ UserChange(SetSize(win, width, height))

UserMaximizes(scr) ==
    /\ ~win.minimized /\ ~win.maximized
    /\ UserChange(Maximize(win, scr))

\* The host gives the window a normal geometry again.
UserUnmaximizes(g) ==
    /\ ~win.minimized /\ win.maximized
    /\ UserChange([Maximize(win, g) EXCEPT !.maximized = FALSE])

UserMinimizes ==
    /\ ~win.minimized
    /\ UserChange([win EXCEPT !.minimized = TRUE])

UserUnminimizes ==
    /\ win.minimized
    /\ UserChange([win EXCEPT !.minimized = FALSE])

\* on_window_event: WindowEvent::Resized(_) | WindowEvent::Moved(_)
OnResizedMoved(hostOk) ==
    /\ Alive
    /\ evPending
    /\ evPending' = FALSE
    /\ Save(win, hostOk)
    /\ lastOp' = [op |-> "save", branch |-> SaveBranch(win, file, hostOk), calls |-> <<>>,
                  changed |-> (SaveWindowState(win, file, hostOk) # file)]
    /\ UNCHANGED <<sidecarVars, seqVars, host, win>>

\* OnCloseRequested with the window hidden before the save.
OnCloseRequested_HideFirst(hostOk) ==
    /\ Alive
    /\ seqPc # "boot"
    /\ win.visible
    /\ Save(Hide(win), hostOk)
    /\ win' = Hide(win)
    /\ lastOp' = [op |-> "save", branch |-> SaveBranch(Hide(win), file, hostOk),
                  calls |-> <<"hide">>,
                  changed |-> (SaveWindowState(Hide(win), file, hostOk) # file)]
    /\ UNCHANGED <<sidecarVars, seqVars, host, evPending>>

\* on_window_event: WindowEvent::CloseRequested: save, then hide, then prevent_close.
OnCloseRequested(hostOk) ==
    /\ Alive
    /\ seqPc # "boot"
    /\ win.visible
    /\ Save(win, hostOk)
    /\ win' = Hide(win)
    /\ lastOp' = [op |-> "save", branch |-> SaveBranch(win, file, hostOk), calls |-> <<"hide">>,
                  changed |-> (SaveWindowState(win, file, hostOk) # file)]
    /\ UNCHANGED <<sidecarVars, seqVars, host, evPending>>

\* on_menu_event "show": window.show(), window.set_focus()
TrayShow ==
    /\ Alive
    /\ seqPc # "boot"
    /\ win' = Show(win)
    /\ lastOp' = NoOp
    /\ UNCHANGED <<sidecarVars, seqVars, host, evPending, file, saved, maxSaves, writing>>

\* on_tray_icon_event: a left click released on the tray icon.
TrayClick ==
    /\ Alive
    /\ seqPc # "boot"
    /\ win' = Show(win)
    /\ lastOp' = NoOp
    /\ UNCHANGED <<sidecarVars, seqVars, host, evPending, file, saved, maxSaves, writing>>

\* on_menu_event "quit": the stop task is spawned, then app.exit(0) is called.
TrayQuit ==
    /\ host = "running"
    /\ seqPc # "boot"
    /\ pc["quit"] = "idle"
    /\ host' = "exiting"
    /\ pc' = [pc EXCEPT !["quit"] = "stop"]
    /\ issuedEmpty' = [issuedEmpty EXCEPT !["quit"] = (BACKEND_PROCESS = 0)]
    /\ UNCHANGED <<BACKEND_PROCESS, procState, reader, spawned, child, result,
                   history, seqVars, evPending, win, storeVars>>

\* The host process ends after app.exit(0); its tasks end with it.
HostExits ==
    /\ host = "exiting"
    /\ host' = "exited"
    /\ UNCHANGED <<sidecarVars, seqVars, evPending, win, storeVars>>

\* ------------------------------------------------------ startup sequencer

\* setup(): setup is needed, so the window is restored and shown at once, inside
\* the setup hook and before any event is dispatched.
SetupReveal(scr) ==
    /\ Alive
    /\ seqPc = "boot"
    /\ setup_needed
    /\ win' = Show(RestoreWindowState(win, file, scr))
    /\ evPending' = (evPending \/ RestoreCalls(file) # <<>>)
    /\ lastOp' = [op |-> "restore", branch |-> RestoreBranch(file),
                  calls |-> RestoreCalls(file) \o <<"show", "set_focus">>,
                  changed |-> (RestoreWindowState(win, file, scr) # win)]
    /\ seqLog' = seqLog \o <<"restore", "show", "focus">>
    /\ seqPc' = "done"
    /\ UNCHANGED <<sidecarVars, setup_needed, attempt, probes, sleeps, sleptMs,
                   SETUP_COMPLETE, host, file, saved, maxSaves, writing>>

\* SeqStart without the test of setup_needed.
SeqStart_Always ==
    /\ Alive
    /\ seqPc = "boot"
    /\ seqPc' = "starting"
    /\ BeginStart("seq")
    /\ UNCHANGED <<BACKEND_PROCESS, procState, reader, spawned, history, setup_needed,
                   attempt, probes, sleeps, sleptMs, SETUP_COMPLETE, seqLog, host,
                   evPending, win, storeVars>>

\* setup(): no setup is needed; the startup task is spawned and calls
\* start_backend_internal.
SeqStart ==
    /\ Alive
    /\ seqPc = "boot"
    /\ ~setup_needed
    /\ seqPc' = "starting"
    /\ BeginStart("seq")
    /\ UNCHANGED <<BACKEND_PROCESS, procState, reader, spawned, history, setup_needed,
                   attempt, probes, sleeps, sleptMs, SETUP_COMPLETE, seqLog, host,
                   evPending, win, storeVars>>

\* SeqStarted without the match: the poll loop is entered whatever start returned.
SeqStarted_IgnoresResult ==
    /\ Alive
    /\ seqPc = "starting"
    /\ pc["seq"] = "idle"
    /\ seqPc' = "probe"
    /\ UNCHANGED <<sidecarVars, setup_needed, attempt, probes, sleeps, sleptMs,
                   SETUP_COMPLETE, seqLog, host, evPending, win, storeVars>>

\* The startup task's match on what start_backend_internal returned.
SeqStarted ==
    /\ Alive
    /\ seqPc = "starting"
    /\ pc["seq"] = "idle"
    /\ seqPc' = IF result["seq"] = "ok" THEN "probe" ELSE "failed"
    /\ UNCHANGED <<sidecarVars, setup_needed, attempt, probes, sleeps, sleptMs,
                   SETUP_COMPLETE, seqLog, host, evPending, win, storeVars>>

\* One pass of the poll loop up to the sleep: check_health().await, and on true
\* SETUP_COMPLETE.store(true).
SeqProbe(healthy) ==
    /\ Alive
    /\ seqPc = "probe"
    /\ attempt < MaxAttempts
    /\ probes' = probes + 1
    /\ IF healthy
       THEN /\ SETUP_COMPLETE' = TRUE
            /\ seqLog' = Append(seqLog, "complete")
            /\ seqPc' = "restore"
       ELSE /\ seqPc' = "sleep"
            /\ UNCHANGED <<SETUP_COMPLETE, seqLog>>
    /\ UNCHANGED <<sidecarVars, setup_needed, attempt, sleeps, sleptMs, host, evPending,
                   win, storeVars>>

\* SeqSleep with a loop that runs once more: 0..=30.
SeqSleep_OneMore ==
    /\ Alive
    /\ seqPc = "sleep"
    /\ sleeps' = sleeps + 1
    /\ sleptMs' = sleptMs + PollIntervalMs
    /\ attempt' = attempt + 1
    /\ seqPc' = IF attempt + 1 <= MaxAttempts THEN "probe" ELSE "timedout"
    /\ UNCHANGED <<sidecarVars, setup_needed, probes, SETUP_COMPLETE, seqLog, host,
                   evPending, win, storeVars>>

\* tokio::time::sleep(500 ms), then the loop's next index or its end and the
\* "timed out" log line.
SeqSleep ==
    /\ Alive
    /\ seqPc = "sleep"
    /\ sleeps' = sleeps + 1
    /\ sleptMs' = sleptMs + PollIntervalMs
    /\ attempt' = attempt + 1
    /\ seqPc' = IF attempt + 1 < MaxAttempts THEN "probe" ELSE "timedout"
    /\ UNCHANGED <<sidecarVars, setup_needed, probes, SETUP_COMPLETE, seqLog, host,
                   evPending, win, storeVars>>

\* window_state::restore_window_state(&window) in the startup task.
SeqRestore(scr) ==
    /\ Alive
    /\ seqPc = "restore"
    /\ Restore(scr)
    /\ lastOp' = [op |-> "restore", branch |-> RestoreBranch(file), calls |-> RestoreCalls(file),
                  changed |-> (RestoreWindowState(win, file, scr) # win)]
    /\ seqLog' = Append(seqLog, "restore")
    /\ seqPc' = "show"
    /\ UNCHANGED <<sidecarVars, setup_needed, attempt, probes, sleeps, sleptMs,
                   SETUP_COMPLETE, host, file, saved, maxSaves, writing>>

\* SeqShow without the return: the loop goes on to its sleep.
SeqShow_NoReturn ==
    /\ Alive
    /\ seqPc = "show"
    /\ win' = Show(win)
    /\ lastOp' = NoOp
    /\ seqLog' = seqLog \o <<"show", "focus">>
    /\ seqPc' = "sleep"
    /\ UNCHANGED <<sidecarVars, setup_needed, attempt, probes, sleeps, sleptMs,
                   SETUP_COMPLETE, host, evPending, file, saved, maxSaves, writing>>

\* window.show(), window.set_focus() and the startup task's return.
SeqShow ==
    /\ Alive
    /\ seqPc = "show"
    /\ win' = Show(win)
    /\ lastOp' = NoOp
    /\ seqLog' = seqLog \o <<"show", "focus">>
    /\ seqPc' = "done"
    /\ UNCHANGED <<sidecarVars, setup_needed, attempt, probes, sleeps, sleptMs,
                   SETUP_COMPLETE, host, evPending, file, saved, maxSaves, writing>>

\* ---------------------------------------------------------- specifications

\* The window as the host creates it: hidden, neither minimized nor maximized.
Launched(g) ==
    [visible |-> FALSE, minimized |-> FALSE, maximized |-> FALSE,
     x |-> g.x, y |-> g.y, width |-> g.width, height |-> g.height]
DefaultGeom == [x |-> 10, y |-> 20, width |-> 800, height |-> 300]

SeqInit ==
    /\ seqPc = "boot"
    /\ attempt = 0
    /\ probes = 0
    /\ sleeps = 0
    /\ sleptMs = 0
    /\ SETUP_COMPLETE = FALSE
    /\ seqLog = <<>>
    /\ host = "running"
    /\ evPending = FALSE

StoreInit ==
    /\ win = Launched(DefaultGeom)
    /\ lastOp = NoOp
    /\ saved = NoGeom
    /\ maxSaves = 0
    /\ writing = NoWrite

\* The supervisor under the frontend's concurrent start_backend and stop_backend
\* commands; the startup path is not taken.
SidecarOnlyInit ==
    /\ SidecarInit
    /\ SeqInit
    /\ StoreInit
    /\ setup_needed = TRUE
    /\ file = NoFile

SidecarNext ==
    \/ \E c \in Cmds : CmdStartBackend(c)
    \/ \E c \in Cmds : StartCheck(c)
    \/ \E c \in Cmds, ok \in BOOLEAN : StartSpawn(c, ok)
    \/ \E c \in Cmds : StartStore(c)
    \/ \E c \in Cmds : CmdStopBackend(c)
    \/ \E c \in Cmds, killOk \in BOOLEAN : StopBackend(c, killOk)
    \/ \E p \in Procs : ProcExits(p)
    \/ \E p \in Procs : ReaderTerminated(p)

SpecSidecar == SidecarOnlyInit /\ [][SidecarNext]_vars

\* The application from its launch: the startup sequence, the tray and the quit
\* item, with the state file as any earlier run can have left it.
StartupInit ==
    /\ SidecarInit
    /\ SeqInit
    /\ StoreInit
    /\ setup_needed \in BOOLEAN
    /\ file \in Files

StartupNext ==
    \/ \E scr \in Screens : SetupReveal(scr)
    \/ SeqStart
    \/ StartCheck("seq")
    \/ \E ok \in BOOLEAN : StartSpawn("seq", ok)
    \/ StartStore("seq")
    \/ SeqStarted
    \/ \E healthy \in BOOLEAN : SeqProbe(healthy)
    \/ SeqSleep
    \/ \E scr \in Screens : SeqRestore(scr)
    \/ SeqShow
    \/ TrayShow
    \/ TrayClick
    \/ TrayQuit
    \/ \E killOk \in BOOLEAN : StopBackend("quit", killOk)
    \/ HostExits
    \/ \E p \in Procs : ProcExits(p)
    \/ \E p \in Procs : ReaderTerminated(p)

SpecStartup == StartupInit /\ [][StartupNext]_vars

\* The window-state store at work: the application at the point where the
\* startup task has started the sidecar and its first health probe has returned
\* true, with any state file, and from there the window's events.
WindowInit ==
    /\ BACKEND_PROCESS = 1
    /\ procState = [p \in Procs |-> IF p = 1 THEN "running" ELSE "unspawned"]
    /\ reader = [p \in Procs |-> IF p = 1 THEN "reading" ELSE "none"]
    /\ spawned = 1
    /\ pc = [c \in Callers |-> "idle"]
    /\ child = [c \in Callers |-> IF c = "seq" THEN 1 ELSE 0]
    /\ result = [c \in Callers |-> IF c = "seq" THEN "ok" ELSE "none"]
    /\ issuedEmpty = [c \in Callers |-> c = "seq"]
    /\ history = <<[caller |-> "seq", op |-> "start", res |-> "ok", child |-> 1]>>
    /\ setup_needed = FALSE
    /\ seqPc = "restore"
    /\ attempt = 0
    /\ probes = 1
    /\ sleeps = 0
    /\ sleptMs = 0
    /\ SETUP_COMPLETE = TRUE
    /\ seqLog = <<"complete">>
    /\ host = "running"
    /\ evPending = FALSE
    /\ StoreInit
    /\ file \in Files

WindowNext ==
    \/ \E x \in Xs, y \in Ys : UserMoves(x, y)
    \/ \E width \in Widths, height \in Heights : UserResizes(width, height)
    \/ \E scr \in Screens : UserMaximizes(scr)
    \/ \E g \in Geoms : UserUnmaximizes(g)
    \/ UserMinimizes
    \/ UserUnminimizes
    \/ \E hostOk \in BOOLEAN : OnResizedMoved(hostOk)
    \/ \E hostOk \in BOOLEAN : OnCloseRequested(hostOk)
    \/ TrayShow
    \/ TrayClick
    \/ \E scr \in Screens : SeqRestore(scr)
    \/ SeqShow

SpecWindow == WindowInit /\ [][WindowNext]_vars

\* The supervisor when the frontend issues its commands one at a time: a command
\* is invoked only after the one before has returned. Processes end and the
\* output tasks run at any time.
NoCallInProgress == \A c \in Callers : pc[c] = "idle"

SerialStartBackend(c) == NoCallInProgress /\ CmdStartBackend(c)

SerialStopBackend(c) == NoCallInProgress /\ CmdStopBackend(c)

SerialNext ==
    \/ \E c \in Cmds : SerialStartBackend(c)
    \/ \E c \in Cmds : StartCheck(c)
    \/ \E c \in Cmds, ok \in BOOLEAN : StartSpawn(c, ok)
    \/ \E c \in Cmds : StartStore(c)
    \/ \E c \in Cmds : SerialStopBackend(c)
    \/ \E c \in Cmds, killOk \in BOOLEAN : StopBackend(c, killOk)
    \/ \E p \in Procs : ProcExits(p)
    \/ \E p \in Procs : ReaderTerminated(p)

SpecSerial == SidecarOnlyInit /\ [][SerialNext]_vars

\* ------------------------------------------------------------------ claims

\* Exactly two calls have returned, both start() calls by different callers that
\* returned success, each issued while no handle was stored; nothing else was
\* called and no process has ended.
TwoStartsFromEmpty ==
    /\ Len(history) = 2
    /\ \A i \in 1..2 : history[i].op = "start" /\ history[i].res = "ok"
    /\ history[1].caller # history[2].caller
    /\ \A c \in Cmds : pc[c] = "idle" /\ issuedEmpty[c]
    /\ \A p \in Procs : procState[p] # "exited"

\* C1: two concurrent start() calls issued while no handle is stored spawn
\* exactly one process and leave exactly one handle stored, that process's.
C1_SingleSpawn ==
    TwoStartsFromEmpty => (spawned = 1 /\ BACKEND_PROCESS = 1)

\* C2: after a stop() that returned success no handle is stored; the start()
\* called next spawns a new process and stores its handle; and that handle stays
\* stored while the new process runs and stop() is not called again.
C2_StopThenStart ==
    \A i \in 1..Len(history) :
        (history[i].op = "stop" /\ history[i].res = "ok") =>
            /\ (i = Len(history) /\ NoCallInProgress) => BACKEND_PROCESS = 0
            /\ (i < Len(history) /\ history[i + 1].op = "start" /\ history[i + 1].res = "ok") =>
                  /\ history[i + 1].child # 0
                  /\ (/\ i + 1 = Len(history)
                      /\ NoCallInProgress
                      /\ procState[history[i + 1].child] = "running")
                     => BACKEND_PROCESS = history[i + 1].child

\* C3: a start() call that finds a handle stored returns success, spawns no
\* process, and leaves the stored handle, the processes and the output tasks
\* as they were.
C3_StartIsNoopWhenStored ==
    [][\A c \in Cmds :
         (StartCheck(c) /\ BACKEND_PROCESS # 0) =>
             /\ pc'[c] = "idle"
             /\ result'[c] = "ok"
             /\ spawned' = spawned
             /\ procState' = procState
             /\ reader' = reader
             /\ BACKEND_PROCESS' = BACKEND_PROCESS]_vars

\* A start() has returned success without spawning while a handle is stored.
C3_Witness ==
    /\ BACKEND_PROCESS # 0
    /\ \E i \in 1..Len(history) :
         history[i].op = "start" /\ history[i].res = "ok" /\ history[i].child = 0

\* What the startup task has done when its poll loop stands at a probe or a
\* sleep, or has run out: only failed probes, each but a pending one followed by
\* its 500 ms sleep, and nothing to the flag or the window.
PollingSoFar ==
    /\ ~SETUP_COMPLETE
    /\ seqLog = <<>>
    /\ sleptMs = 500 * sleeps
    /\ seqPc = "probe" => (probes = sleeps /\ probes < 30)
    /\ seqPc = "sleep" => (probes = sleeps + 1 /\ probes <= 30)
    /\ seqPc = "timedout" => (probes = 30 /\ sleeps = 30 /\ sleptMs = 15000)

\* C4: on the normal path, when start() succeeded and every health probe
\* returned false, the startup task makes exactly 30 probes, each followed by a
\* 500 ms sleep, and then ends for good having neither set SETUP_COMPLETE nor
\* restored nor shown the window.
C4_PollTimeout ==
    /\ [](seqPc \in {"probe", "sleep", "timedout"} => PollingSoFar)
    /\ [][seqPc = "timedout" =>
            /\ seqPc' = "timedout"
            /\ probes' = probes
            /\ seqLog' = seqLog
            /\ SETUP_COMPLETE' = SETUP_COMPLETE]_vars

\* The poll loop has run out after 30 failed probes.
C4_Witness ==
    /\ seqPc = "timedout"
    /\ probes = 30
    /\ sleeps = 30
    /\ ~setup_needed
    /\ result["seq"] = "ok"

\* C5: on the normal path the first probe that returns true is attempt k of 1..30,
\* after k - 1 failed probes and their sleeps; the startup task then sets
\* SETUP_COMPLETE, restores the window and shows it, in that order, and probes
\* no more.
C5_FirstHealthyProbe ==
    /\ []((~setup_needed /\ seqPc \in {"restore", "show", "done"}) =>
            /\ SETUP_COMPLETE
            /\ probes \in 1..30
            /\ sleeps = probes - 1
            /\ attempt = probes - 1
            /\ seqPc = "restore" => seqLog = <<"complete">>
            /\ seqPc = "show" => seqLog = <<"complete", "restore">>
            /\ seqPc = "done" => seqLog = <<"complete", "restore", "show", "focus">>)
    /\ [][SETUP_COMPLETE => (probes' = probes /\ SETUP_COMPLETE')]_vars

\* The thirtieth probe was the first to return true, and the window was restored
\* and shown.
C5_Witness ==
    /\ seqPc = "done"
    /\ probes = 30
    /\ SETUP_COMPLETE
    /\ win.visible
    /\ seqLog = <<"complete", "restore", "show", "focus">>

\* C6: when setup is needed the window is restored from the state file and shown
\* inside the setup hook, before anything else happens, and the startup sequence
\* never calls start() and never probes the health endpoint.
C6_SetupPath ==
    setup_needed =>
        /\ seqPc \in {"boot", "done"}
        /\ probes = 0
        /\ pc["seq"] = "idle"
        /\ \A i \in 1..Len(history) : history[i].caller # "seq"
        /\ spawned = 0
        /\ seqPc = "boot" =>
              (win = Launched(DefaultGeom) /\ host = "running" /\ seqLog = <<>>)
        /\ seqPc = "done" => seqLog = <<"restore", "show", "focus">>
        /\ (seqPc = "done" /\ lastOp.op = "restore") =>
              /\ lastOp.calls = RestoreCalls(file) \o <<"show", "set_focus">>
              /\ \E scr \in Screens :
                   win = Show(RestoreWindowState(Launched(DefaultGeom), file, scr))

\* Setup was needed and the window was shown with the geometry of the state file.
C6_Witness ==
    /\ setup_needed
    /\ seqPc = "done"
    /\ lastOp.branch = "geometry"
    /\ win.visible
    /\ GeomOf(win) = [x |-> -8, y |-> 0, width |-> 400, height |-> 300]

\* A step of one of the two handlers that call save_window_state.
SaveStep(hostOk) == OnResizedMoved(hostOk) \/ OnCloseRequested(hostOk)

C8_MaximizedSaveKeepsGeometry ==
    [][\A hostOk \in BOOLEAN :
         (/\ SaveStep(hostOk)
          /\ hostOk
          /\ win.visible /\ ~win.minimized /\ win.maximized
          /\ file.exists /\ ParseOk(file.text))
         => /\ file'.exists
            /\ ParseOk(file'.text)
            /\ Parsed(file'.text) = [Parsed(file.text) EXCEPT !.maximized = TRUE]]_vars

\* Two maximized saves in a row have left a maximized record whose geometry is
\* not the one the maximized window reports.
C8_Witness ==
    /\ lastOp.op = "save"
    /\ lastOp.branch = "maximized"
    /\ maxSaves = 2
    /\ win.maximized
    /\ Parsed(file.text).maximized
    /\ [x |-> Parsed(file.text).x, y |-> Parsed(file.text).y,
        width |-> Parsed(file.text).width, height |-> Parsed(file.text).height] # GeomOf(win)

\* C9 as claimed: when the file's latest write was a save() of a visible,
\* non-minimized, non-maximized window with geometry (x, y, width, height), a
\* restore() gives the window exactly that geometry and does not maximize it.
C9_RoundTrip ==
    (lastOp.op = "restore" /\ saved # NoGeom) =>
        /\ GeomOf(win) = saved
        /\ lastOp.branch # "maximize"

\* C9 as amended: the same for a geometry with width >= 400 and height >= 300.
C9_RoundTripValidSize ==
    (lastOp.op = "restore" /\ saved # NoGeom /\ saved.width >= 400 /\ saved.height >= 300) =>
        /\ GeomOf(win) = saved
        /\ lastOp.branch # "maximize"
        /\ lastOp.calls = <<"set_position", "set_size">>

\* A restore has moved the window back to the geometry saved before.
C9_Witness ==
    /\ lastOp.op = "restore"
    /\ lastOp.changed
    /\ saved # NoGeom
    /\ saved.width >= 400 /\ saved.height >= 300
    /\ GeomOf(win) = saved
    /\ ~win.maximized

\* The state file holds a record restore_window_state applies.
Applicable(f) ==
    /\ f.exists
    /\ ParseOk(f.text)
    /\ Parsed(f.text).width >= 400
    /\ Parsed(f.text).height >= 300

\* C10: restore() changes the window only when the file holds a record that
\* parses and has width >= 400 and height >= 300; with no file, a file that does
\* not parse, or a smaller record (maximized or not) it makes no call on the
\* window and returns, and the startup task goes on to show the window.
C10_RestoreNeedsValidRecord ==
    [][\A scr \in Screens :
         (SeqRestore(scr) /\ ~Applicable(file)) =>
             /\ win' = win
             /\ lastOp'.calls = <<>>
             /\ seqPc' = "show"]_vars

\* A restore has left the window alone for a maximized record below the minimum
\* size.
C10_Witness ==
    /\ lastOp.op = "restore"
    /\ lastOp.branch = "invalid-size"
    /\ ~lastOp.changed
    /\ Parsed(file.text).maximized
    /\ ~win.maximized

\* C11: on quit the stop operation runs before the host process exits, so that a
\* sidecar whose handle was stored when quit was chosen is not left running
\* after the exit (unless the kill signal itself failed).
C11_StopBeforeExit ==
    (host = "exited" /\ ~issuedEmpty["quit"] /\ result["quit"] # "err") =>
        /\ pc["quit"] = "idle"
        /\ \A p \in Procs : procState[p] # "running"

\* C12: a termination event clears the stored handle only when the handle is the
\* terminated process's own: the output task of process p never empties a slot
\* that holds the handle of another process.
C12_ClearsOnlyOwnHandle ==
    [][\A p \in Procs :
         (ReaderTerminated(p) /\ BACKEND_PROCESS # 0) => BACKEND_PROCESS = p]_vars

\* The output tasks are tasks of the async runtime: one that has an event to
\* receive is polled in the end.
ReaderFairness == \A p \in Procs : WF_vars(ReaderTerminated(p))

\* The supervisor under commands issued one at a time, with the output tasks
\* scheduled fairly.
SpecSerialFair == SidecarOnlyInit /\ [][SerialNext]_vars /\ ReaderFairness

\* C13: when the sidecar ends on its own while its handle is stored, the output
\* task in the end clears the stored handle and leaves its loop; the slot is
\* then empty, and a start() that finds it empty goes on to spawn instead of
\* returning at once.
C13_TerminationClearsHandle ==
    /\ \A p \in Procs :
         (procState[p] = "exited" /\ BACKEND_PROCESS = p)
             ~> (reader[p] = "done" /\ BACKEND_PROCESS # p)
    /\ [][\A p \in Procs :
             ReaderTerminated(p) => (BACKEND_PROCESS' = 0 /\ reader'[p] = "done")]_vars
    /\ [][\A c \in Cmds :
             (StartCheck(c) /\ BACKEND_PROCESS = 0) => pc'[c] = "spawn"]_vars

\* Process 1 ended on its own, its output task cleared the slot and left its
\* loop, and a later start() spawned process 2 and stored its handle.
C13_Witness ==
    /\ procState[1] = "exited"
    /\ reader[1] = "done"
    /\ \A i \in 1..Len(history) : history[i].op = "start"
    /\ Len(history) = 2
    /\ history[2].child = 2
    /\ BACKEND_PROCESS = 2
    /\ procState[2] = "running"

\* C14: when start() fails it returns an error with no handle stored and no
\* output task launched; the startup task then ends for good without a health
\* probe, without setting SETUP_COMPLETE and without restoring or showing the
\* window.
C14_StartFailure ==
    /\ [](result["seq"] = "err" =>
            /\ seqPc \in {"starting", "failed"}
            /\ BACKEND_PROCESS = 0
            /\ spawned = 0
            /\ \A p \in Procs : reader[p] = "none"
            /\ probes = 0
            /\ ~SETUP_COMPLETE
            /\ seqLog = <<>>)
    /\ [](seqPc = "failed" => result["seq"] = "err")
    /\ [][seqPc = "failed" =>
            /\ seqPc' = "failed"
            /\ probes' = probes
            /\ seqLog' = seqLog
            /\ SETUP_COMPLETE' = SETUP_COMPLETE]_vars

\* start() has failed and the startup task has ended, the window still hidden.
C14_Witness ==
    /\ seqPc = "failed"
    /\ result["seq"] = "err"
    /\ history = <<[caller |-> "seq", op |-> "start", res |-> "err", child |-> 0]>>
    /\ host = "running"
    /\ ~win.visible

\* A step that calls restore_window_state: the startup task's or the setup hook's.
RestoreStep(scr) == SeqRestore(scr) \/ SetupReveal(scr)

\* A call restore_window_state makes (show and set_focus are its caller's).
IsRestoreCall(call) == call \in {"maximize", "set_position", "set_size"}

\* C15: a restore() that applies a valid record with maximized false sets the
\* position first and the size second and does not maximize; with maximized
\* true it only maximizes and sets neither position nor size; in both cases it
\* leaves the state file as it is.
C15_RestoreCallOrder ==
    [][\A scr \in Screens :
         (RestoreStep(scr) /\ Applicable(file)) =>
             /\ file' = file
             /\ IF Parsed(file.text).maximized
                THEN /\ SelectSeq(lastOp'.calls, IsRestoreCall) = <<"maximize">>
                     /\ win'.maximized
                ELSE /\ SelectSeq(lastOp'.calls, IsRestoreCall) = <<"set_position", "set_size">>
                     /\ win'.maximized = win.maximized
                     /\ win'.x = Parsed(file.text).x
                     /\ win'.y = Parsed(file.text).y
                     /\ win'.width = Parsed(file.text).width
                     /\ win'.height = Parsed(file.text).height]_vars

\* The startup task's restore has applied a maximized record by the one call
\* maximize.
C15_Witness ==
    /\ ~setup_needed
    /\ lastOp.op = "restore"
    /\ lastOp.calls = <<"maximize">>
    /\ win.maximized
    /\ Applicable(file)
    /\ Parsed(file.text).maximized

\* --------------------------------------------- the write of the state file

\* fs::write(&state_file, json) is File::create, which truncates the file, and
\* then write_all; the event handlers run on the host's event thread, the
\* startup task's restore_window_state on a worker thread of the runtime.

\* The save branches that reach fs::write.
Writes(branch) == branch \in {"full", "maximized"}

\* An event handler calls save_window_state and runs it up to File::create
\* (or, on a branch without a write, to its end): the Resized/Moved handler, or
\* the CloseRequested handler (isClose), which hides the window after the save.
BeginSave(hostOk, isClose) ==
    /\ Alive
    /\ ~writing.active
    /\ IF isClose THEN seqPc # "boot" /\ win.visible ELSE evPending
    /\ evPending' = (IF isClose THEN evPending ELSE FALSE)
    /\ lastOp' = [op |-> "save", branch |-> SaveBranch(win, file, hostOk),
                  calls |-> IF isClose THEN <<"hide">> ELSE <<>>,
                  changed |-> (SaveWindowState(win, file, hostOk) # file)]
    /\ saved' = IF SaveBranch(win, file, hostOk) = "full" THEN GeomOf(win)
                ELSE IF SaveBranch(win, file, hostOk) = "maximized" THEN NoGeom
                ELSE saved
    /\ maxSaves' = IF SaveBranch(win, file, hostOk) = "maximized"
                   THEN (IF maxSaves < 2 THEN maxSaves + 1 ELSE maxSaves)
                   ELSE IF SaveBranch(win, file, hostOk) = "full" THEN 0 ELSE maxSaves
    /\ IF Writes(SaveBranch(win, file, hostOk))
       THEN /\ file' = Written(<<>>)
            /\ writing' = [active |-> TRUE, text |-> SaveWindowState(win, file, hostOk).text,
                           hide |-> isClose]
            /\ win' = win
       ELSE /\ file' = file
            /\ writing' = NoWrite
            /\ win' = (IF isClose THEN Hide(win) ELSE win)
    /\ UNCHANGED <<sidecarVars, seqVars, host>>

\* write_all: a write() call that takes only the first k members of the text.
WritePart(k) ==
    /\ Alive
    /\ writing.active
    /\ file.text = <<>>
    /\ k \in 1..(Len(writing.text) - 1)
    /\ file' = Written(SubSeq(writing.text, 1, k))
    /\ UNCHANGED <<sidecarVars, seqVars, host, evPending, win, lastOp, saved, maxSaves,
                   writing>>

\* write_all comes to its end: the file holds the whole text, and the handler
\* goes on to its end (the CloseRequested handler hides the window).
WriteAll ==
    /\ Alive
    /\ writing.active
    /\ file' = Written(writing.text)
    /\ writing' = NoWrite
    /\ win' = (IF writing.hide THEN Hide(win) ELSE win)
    /\ UNCHANGED <<sidecarVars, seqVars, host, evPending, lastOp, saved, maxSaves>>

\* The event thread is free: no handler is in the middle of its write.
HandlerFree == ~writing.active

\* Where write_all can be cut in the model: after the second member.
Cuts == {2}

\* The window-state store with the write in its steps: from the first healthy
\* probe on, the window's events on the event thread and the startup task's
\* restore on its own thread.
WriteNext ==
    \/ \E x \in Xs, y \in Ys : HandlerFree /\ UserMoves(x, y)
    \/ \E scr \in Screens : HandlerFree /\ UserMaximizes(scr)
    \/ \E g \in Geoms : HandlerFree /\ UserUnmaximizes(g)
    \/ \E hostOk \in BOOLEAN, isClose \in BOOLEAN : BeginSave(hostOk, isClose)
    \/ \E k \in Cuts : WritePart(k)
    \/ WriteAll
    \/ HandlerFree /\ TrayShow
    \/ \E scr \in Screens : SeqRestore(scr)
    \/ SeqShow

SpecWrite == WindowInit /\ [][WriteNext]_vars

\* A reader of the file would see it truncated or written in part.
Torn == writing.active /\ file.text # writing.text

\* C16: the state file is replaced as a whole: a restore() never reads it empty
\* or written in part by a save() in progress, and when no save is in progress
\* after a write, the file holds one complete record.
C16_AtomicWrites ==
    /\ [][\A scr \in Screens : SeqRestore(scr) => ~Torn]_vars
    /\ []((~writing.active /\ lastOp.op = "save" /\ Writes(lastOp.branch)) =>
            (file.exists /\ ParseOk(file.text)))

\* C17: on the normal path the window is hidden in every state in which no
\* health probe has returned true yet, also after the 30 attempts have run out,
\* whatever the tray's show item and the clicks on its icon do.
C17_HiddenUntilHealthy ==
    (~setup_needed /\ ~SETUP_COMPLETE) => ~win.visible

\* C18: a stop() that finds a handle removes it whether the kill succeeds or
\* fails, and returns an error when it fails, the process then still running;
\* when a stop() has returned, no handle is stored, and the start() called next
\* spawns a new process.
C18_StopRemovesHandle ==
    /\ [][\A c \in Cmds, killOk \in BOOLEAN :
             StopBackend(c, killOk) =>
                 /\ BACKEND_PROCESS' = 0
                 /\ (BACKEND_PROCESS # 0 /\ ~killOk) =>
                        /\ result'[c] = "err"
                        /\ procState' = procState
                 /\ (BACKEND_PROCESS = 0 \/ killOk) => result'[c] = "ok"]_vars
    /\ [](\A i \in 1..Len(history) - 1 :
             (history[i].op = "stop" /\ history[i + 1].op = "start"
              /\ history[i + 1].res = "ok") => history[i + 1].child # 0)

\* A stop() whose kill failed has removed the handle of process 1, and the
\* start() after it has spawned process 2 while process 1 still runs.
C18_Witness ==
    /\ Len(history) = 3
    /\ history[2] = [caller |-> history[2].caller, op |-> "stop", res |-> "err", child |-> 1]
    /\ history[3].op = "start"
    /\ history[3].child = 2
    /\ procState[1] = "running"
    /\ procState[2] = "running"
    /\ BACKEND_PROCESS = 2

\* The file holds no record a maximized save could rewrite.
NoRecord(f) == ~(f.exists /\ ParseOk(f.text))

\* C19: a save() on a maximized window when the file is absent or does not
\* parse writes nothing, the file staying absent or as it is; and a restore()
\* of such a file makes no call on the window, so does not maximize it.
C19_MaximizedSaveWithoutRecord ==
    /\ [][\A hostOk \in BOOLEAN :
             (SaveStep(hostOk) /\ win.maximized /\ NoRecord(file)) => file' = file]_vars
    /\ [][\A scr \in Screens :
             (SeqRestore(scr) /\ NoRecord(file)) =>
                 /\ lastOp'.calls = <<>>
                 /\ win'.maximized = win.maximized]_vars

\* A save on the visible, maximized window has left a file that does not parse
\* as it was.
C19_Witness ==
    /\ lastOp.op = "save"
    /\ lastOp.branch = "maximized-no-record"
    /\ ~lastOp.changed
    /\ win.visible /\ win.maximized /\ ~win.minimized
    /\ file.exists
    /\ ~ParseOk(file.text)

\* The geometry of the record in the file.
RecordGeom(f) ==
    [x |-> Parsed(f.text).x, y |-> Parsed(f.text).y,
     width |-> Parsed(f.text).width, height |-> Parsed(f.text).height]

\* Resized/Moved events handled while the window is hidden leave the file as
\* it is.
HiddenEventsKeepFile ==
    [][\A hostOk \in BOOLEAN : (OnResizedMoved(hostOk) /\ ~win.visible) => file' = file]_vars

====
